---- MODULE Spec2Model ----
(***************************************************************************)
(* A model of src/parse_json.py: the roster optimizer that walks a tree of *)
(* "selections", builds Unit records, aggregates weapons, deduplicates     *)
(* rules and abilities into global tables and mines ability text.          *)
(*                                                                         *)
(* Conventions.                                                            *)
(*  - A JSON object is a TLA+ record whose DOMAIN is the set of keys that  *)
(*    are present, so  "k" in d  is  "k" \in DOMAIN d  and  d.get(k, x)    *)
(*    is Get(d, k, x).  A JSON value that is not an object is the record   *)
(*    [nondict |-> v].                                                     *)
(*  - A Python dict that the program builds (insertion ordered) is a       *)
(*    sequence of entries [k |-> key, v |-> value].                        *)
(*  - Python's None is the string None; a text is a sequence of words.     *)
(*  - Unit dicts are shared by reference (a unit is mutated after it was   *)
(*    appended to a list), so they live in optimized.heap and lists hold   *)
(*    indices into it.                                                     *)
(*  - Line 458 of the source (the maybe_add_modifier_metadata call in      *)
(*    process_selection) is indented one level short, which Python         *)
(*    rejects; it is read as part of the Abilities branch it stands in,    *)
(*    as the same three calls are written in create_unit.                  *)
(*  - armyName, faction and pointsTotal of the output are left out: no     *)
(*    operation modelled here reads or changes them.                       *)
(***************************************************************************)
EXTENDS Integers, Sequences, FiniteSets, TLC

VARIABLES
    input,        \* the parsed roster document handed to the current run
    optimized,    \* the output structure built by optimize_warhammer_roster
    rerun,        \* the output structure of a second run on the same input
    pc,           \* position of the driver: "start", "done", "twice"
    description,  \* the text last handed to a Text Pattern Miner function
    mined,        \* what that function returned
    target,       \* the unit dict the merge functions act on
    history,      \* history variable of the specification at hand
    last,         \* history: the last add_rule / add_ability call
    selection,    \* the selection last handed to get_points_cost or extract_unit_stats
    result        \* what that function did with it

vars == <<input, optimized, rerun, pc, description, mined, target, history,
          last, selection, result>>

None == "None"

----------------------------------------------------------------------------
(* JSON objects and Python dicts *)

Get(d, k, default) == IF k \in DOMAIN d THEN d[k] ELSE default

isinstance_dict(v) == "nondict" \notin DOMAIN v

\* Python truthiness of an identifier: None and the empty string are falsy
Truthy(v) == v # None /\ v # ""

RECURSIVE DictFind(_, _, _)
\* the index of key k in dict d at or after position i, 0 when absent
DictFind(d, k, i) ==
    IF i > Len(d) THEN 0
    ELSE IF d[i].k = k THEN i
    ELSE DictFind(d, k, i + 1)

DictHas(d, k) == DictFind(d, k, 1) # 0

DictGet(d, k, default) ==
    IF DictHas(d, k) THEN d[DictFind(d, k, 1)].v ELSE default

\* d[k] = v : overwrite in place, or append a new key at the end
DictSet(d, k, v) ==
    IF DictHas(d, k)
    THEN [d EXCEPT ![DictFind(d, k, 1)] = [k |-> k, v |-> v]]
    ELSE Append(d, [k |-> k, v |-> v])

\* d.setdefault(k, v), as the dict it leaves behind
DictSetDefault(d, k, v) == IF DictHas(d, k) THEN d ELSE Append(d, [k |-> k, v |-> v])

DictKeys(d) == {d[i].k : i \in 1..Len(d)}

\* "x in lst" and "if x not in lst: lst.append(x)"
InList(lst, x) == \E i \in 1..Len(lst) : lst[i] = x

AppendIfAbsent(lst, x) == IF InList(lst, x) THEN lst ELSE Append(lst, x)

----------------------------------------------------------------------------
(* optimize_warhammer_roster's output skeleton *)

EmptyOptimized ==
    [rules |-> <<>>, abilities |-> <<>>, units |-> <<>>, attachments |-> <<>>,
     heap |-> <<>>]

----------------------------------------------------------------------------
(* Entity Deduplicator: add_rule, add_ability *)

add_rule_overwrite(rule, opt) ==
    IF ~isinstance_dict(rule) THEN [ret |-> None, optimized |-> opt]
    ELSE LET rule_id == Get(rule, "id", None) IN
         IF ~Truthy(rule_id) THEN [ret |-> None, optimized |-> opt]
         ELSE [ret |-> rule_id,
               optimized |-> [opt EXCEPT !.rules = DictSet(@, rule_id,
                    [id |-> rule_id,
                     name |-> Get(rule, "name", "Unnamed Rule"),
                     description |-> Get(rule, "description", ""),
                     hidden |-> Get(rule, "hidden", FALSE)])]]

add_rule(rule, opt) ==
    IF ~isinstance_dict(rule) THEN [ret |-> None, optimized |-> opt]
    ELSE LET rule_id == Get(rule, "id", None) IN
         IF ~Truthy(rule_id) THEN [ret |-> None, optimized |-> opt]
         ELSE IF ~DictHas(opt.rules, rule_id)
              THEN [ret |-> rule_id,
                    optimized |-> [opt EXCEPT !.rules = DictSet(@, rule_id,
                         [id |-> rule_id,
                          name |-> Get(rule, "name", "Unnamed Rule"),
                          description |-> Get(rule, "description", ""),
                          hidden |-> Get(rule, "hidden", FALSE)])]]
              ELSE [ret |-> rule_id, optimized |-> opt]

RECURSIVE FirstDescription(_, _)
\* the loop "for char in characteristics: if char.get('name') == 'Description':
\* return char.get('$text', '')", falling through to the empty text
FirstDescription(chars, i) ==
    IF i > Len(chars) THEN <<>>
    ELSE IF Get(chars[i], "name", None) = "Description"
         THEN Get(chars[i], "text", <<>>)
         ELSE FirstDescription(chars, i + 1)

extract_profile_description(profile) ==
    FirstDescription(Get(profile, "characteristics", <<>>), 1)

add_ability(profile, opt) ==
    IF ~isinstance_dict(profile) THEN [ret |-> None, optimized |-> opt]
    ELSE LET ability_id == Get(profile, "id", None) IN
         IF ~Truthy(ability_id) THEN [ret |-> None, optimized |-> opt]
         ELSE IF ~DictHas(opt.abilities, ability_id)
              THEN [ret |-> ability_id,
                    optimized |-> [opt EXCEPT !.abilities = DictSet(@, ability_id,
                         [id |-> ability_id,
                          name |-> Get(profile, "name", "Unnamed Ability"),
                          description |->
                              FirstDescription(Get(profile, "characteristics", <<>>), 1)])]]
              ELSE [ret |-> ability_id, optimized |-> opt]

----------------------------------------------------------------------------
(* Text Pattern Miner: texts are sequences of words *)

\* str.lower() on the words the model's texts are made of
Lower(w) ==
    CASE w = "Add" -> "add"
      [] w = "Subtract" -> "subtract"
      [] w = "Improve" -> "improve"
      [] w = "Worsen" -> "worsen"
      [] w = "Hit" -> "hit"
      [] w = "Wound" -> "wound"
      [] w = "Re-roll" -> "re-roll"
      [] w = "Leader" -> "leader"
      [] w = "While" -> "while"
      [] w = "Keywords" -> "keywords"
      [] w = "Hazardous" -> "hazardous"
      [] w = "Overcharge" -> "overcharge"
      [] w = "Standard" -> "standard"
      [] w = "Range" -> "range"
      [] OTHER -> w

lower(text) == [i \in 1..Len(text) |-> Lower(text[i])]

Digits == <<"1", "2", "3", "4", "5", "6", "7", "8", "9">>

\* str.isdigit() and int() on one word
isdigit(w) == \E i \in 1..Len(Digits) : Digits[i] = w

int(w) == CHOOSE i \in 1..Len(Digits) : Digits[i] = w

\* a regex literal that ends a pattern matches any word it is a prefix of
StartsWith(w, prefix) == w = prefix \/ (prefix = "roll" /\ w = "rolls")

UNIT_SCOPE_MARKERS ==
    { <<"leading", "a", "unit">>, <<"unit", "contains">>,
      <<"models", "in", "that", "unit">>, <<"attached", "unit">>,
      <<"while", "this", "unit">>, <<"bodyguard", "unit">> }

ROLL_KEY_MAP == <<[k |-> "hit", v |-> "hits"], [k |-> "wound", v |-> "wounds"],
                  [k |-> "damage", v |-> "damage"]>>

\* "marker in normalized" for a marker made of whole words
Contains(text, marker) ==
    \E i \in 1..Len(text) :
        /\ i + Len(marker) - 1 <= Len(text)
        /\ \A j \in 1..Len(marker) : text[i + j - 1] = marker[j]

\* '"hit roll" in normalized' / '"wound roll" in normalized'
ContainsRoll(text, type) ==
    \E i \in 1..Len(text) - 1 : text[i] = type /\ StartsWith(text[i + 1], "roll")

\* the regular expressions of MODIFIER_PATTERNS, element by element:
\*   lit  a literal word          num   (\d+)
\*   opt  (?:the\s+)?             type  (hit|wound)
\*   pre  a literal that ends the pattern (prefix of the word it matches)
Lit(w) == [t |-> "lit", w |-> w]
Opt(w) == [t |-> "opt", w |-> w]
Pre(w) == [t |-> "pre", w |-> w]
Num == [t |-> "num", w |-> ""]
Type == [t |-> "type", w |-> ""]
Roll_s == [t |-> "rolls?", w |-> ""]

MODIFIER_PATTERNS ==
    << [re |-> <<Lit("add"), Num, Lit("to"), Opt("the"), Type, Pre("roll")>>, mult |-> 1],
       [re |-> <<Lit("add"), Num, Lit("to"), Opt("the"), Type, Pre("rolls")>>, mult |-> 1],
       [re |-> <<Lit("improve"), Opt("the"), Type, Roll_s, Lit("by"), Num>>, mult |-> 1],
       [re |-> <<Lit("subtract"), Num, Lit("from"), Opt("the"), Type, Pre("roll")>>, mult |-> -1],
       [re |-> <<Lit("subtract"), Num, Lit("from"), Opt("the"), Type, Pre("rolls")>>, mult |-> -1],
       [re |-> <<Lit("worsen"), Opt("the"), Type, Roll_s, Lit("by"), Num>>, mult |-> -1] >>

NoMatch == [ok |-> FALSE, end |-> 0, groups |-> <<>>]

RECURSIVE MatchFrom(_, _, _, _, _)
\* match elements pi.. of regex re against words wi.. of text; groups collects
\* the captures in pattern order
MatchFrom(re, pi, text, wi, groups) ==
    IF pi > Len(re) THEN [ok |-> TRUE, end |-> wi, groups |-> groups]
    ELSE LET e == re[pi] IN
         IF e.t = "opt"
         THEN IF wi <= Len(text) /\ text[wi] = e.w
                  /\ MatchFrom(re, pi + 1, text, wi + 1, groups).ok
              THEN MatchFrom(re, pi + 1, text, wi + 1, groups)
              ELSE MatchFrom(re, pi + 1, text, wi, groups)
         ELSE IF wi > Len(text) THEN NoMatch
         ELSE LET w == text[wi] IN
              CASE e.t = "lit" ->
                     IF w = e.w THEN MatchFrom(re, pi + 1, text, wi + 1, groups) ELSE NoMatch
                [] e.t = "pre" ->
                     IF StartsWith(w, e.w) THEN MatchFrom(re, pi + 1, text, wi + 1, groups)
                     ELSE NoMatch
                [] e.t = "rolls?" ->
                     IF w \in {"roll", "rolls"} THEN MatchFrom(re, pi + 1, text, wi + 1, groups)
                     ELSE NoMatch
                [] e.t = "num" ->
                     IF isdigit(w) THEN MatchFrom(re, pi + 1, text, wi + 1, Append(groups, w))
                     ELSE NoMatch
                [] e.t = "type" ->
                     IF w \in {"hit", "wound"}
                     THEN MatchFrom(re, pi + 1, text, wi + 1, Append(groups, w))
                     ELSE NoMatch

RECURSIVE finditer(_, _, _)
\* pattern.finditer(text): the non-overlapping matches, leftmost first
finditer(re, text, i) ==
    IF i > Len(text) THEN <<>>
    ELSE LET m == MatchFrom(re, 1, text, i, <<>>) IN
         IF m.ok THEN <<m.groups>> \o finditer(re, text, m.end)
         ELSE finditer(re, text, i + 1)

\* the body of the inner loop of extract_modifier_effects for one match
ModifierOfMatch(modifiers, groups, multiplier) ==
    IF Len(groups) # 2 THEN modifiers
    ELSE LET first == groups[1]
             second == groups[2]
             add(value, roll_type) ==
                 IF ~DictHas(ROLL_KEY_MAP, roll_type) THEN modifiers
                 ELSE LET key == DictGet(ROLL_KEY_MAP, roll_type, None) IN
                      DictSet(modifiers, key, DictGet(modifiers, key, 0) + value)
         IN IF isdigit(first) THEN add(int(first) * multiplier, second)
            ELSE IF isdigit(second) THEN add(int(second) * multiplier, first)
            ELSE modifiers

RECURSIVE ModifiersOfMatches(_, _, _, _)
ModifiersOfMatches(modifiers, matches, multiplier, i) ==
    IF i > Len(matches) THEN modifiers
    ELSE ModifiersOfMatches(ModifierOfMatch(modifiers, matches[i], multiplier),
                            matches, multiplier, i + 1)

RECURSIVE ModifiersOfPatterns(_, _, _, _)
\* "for pattern, multiplier in MODIFIER_PATTERNS: for match in ..."
ModifiersOfPatterns(patterns, modifiers, normalized, p) ==
    IF p > Len(patterns) THEN modifiers
    ELSE ModifiersOfPatterns(patterns,
             ModifiersOfMatches(modifiers, finditer(patterns[p].re, normalized, 1),
                                patterns[p].mult, 1),
             normalized, p + 1)

NoEffect == [some |-> FALSE, scope |-> "", effects |-> <<>>]

ScopeOf(normalized) ==
    IF \E marker \in UNIT_SCOPE_MARKERS : Contains(normalized, marker)
    THEN "unit" ELSE "self"

extract_modifier_effects(descr) ==
    IF descr = <<>> THEN NoEffect
    ELSE LET normalized == lower(descr) IN
         IF ~ContainsRoll(normalized, "hit") /\ ~ContainsRoll(normalized, "wound")
         THEN NoEffect
         ELSE LET modifiers == ModifiersOfPatterns(MODIFIER_PATTERNS, <<>>, normalized, 1) IN
              IF modifiers = <<>> THEN NoEffect
              ELSE [some |-> TRUE, scope |-> ScopeOf(normalized), effects |-> modifiers]

----------------------------------------------------------------------------
(* Unit dicts and the merge functions *)

\* d[k] = v on a JSON object / unit dict
Put(d, k, v) == [x \in DOMAIN d \cup {k} |-> IF x = k THEN v ELSE d[x]]

RECURSIVE MergeFirstWins(_, _, _)
\* "for key, value in effects.items(): d.setdefault(key, value)"
MergeFirstWins(d, effects, i) ==
    IF i > Len(effects) THEN d
    ELSE MergeFirstWins(DictSetDefault(d, effects[i].k, effects[i].v), effects, i + 1)

RECURSIVE MergeLastWins(_, _, _)
\* the slip "d[key] = value" in place of setdefault
MergeLastWins(d, effects, i) ==
    IF i > Len(effects) THEN d
    ELSE MergeLastWins(DictSet(d, effects[i].k, effects[i].v), effects, i + 1)

RECURSIVE MergeSum(_, _, _)
\* "for key, value in effects.items(): d[key] = d.get(key, 0) + value"
MergeSum(d, effects, i) ==
    IF i > Len(effects) THEN d
    ELSE MergeSum(DictSet(d, effects[i].k, DictGet(d, effects[i].k, 0) + effects[i].v),
                  effects, i + 1)

\* the field a "unit"-scoped effect lands in depends on the leader flag
apply_reroll_effects_overwrite(tgt, reroll_data) ==
    IF ~reroll_data.some THEN tgt
    ELSE IF reroll_data.scope = "unit" /\ Get(tgt, "isLeader", FALSE)
         THEN Put(tgt, "leaderAuraRerolls",
                  MergeLastWins(Get(tgt, "leaderAuraRerolls", <<>>), reroll_data.effects, 1))
         ELSE Put(tgt, "unitRerolls",
                  MergeLastWins(Get(tgt, "unitRerolls", <<>>), reroll_data.effects, 1))

apply_reroll_effects(tgt, reroll_data) ==
    IF ~reroll_data.some THEN tgt
    ELSE IF reroll_data.scope = "unit" /\ Get(tgt, "isLeader", FALSE)
         THEN Put(tgt, "leaderAuraRerolls",
                  MergeFirstWins(Get(tgt, "leaderAuraRerolls", <<>>), reroll_data.effects, 1))
         ELSE Put(tgt, "unitRerolls",
                  MergeFirstWins(Get(tgt, "unitRerolls", <<>>), reroll_data.effects, 1))

apply_modifier_effects(tgt, modifier_data) ==
    IF ~modifier_data.some THEN tgt
    ELSE IF modifier_data.scope = "unit" /\ Get(tgt, "isLeader", FALSE)
         THEN Put(tgt, "leaderAuraModifiers",
                  MergeSum(Get(tgt, "leaderAuraModifiers", <<>>), modifier_data.effects, 1))
         ELSE Put(tgt, "unitModifiers",
                  MergeSum(Get(tgt, "unitModifiers", <<>>), modifier_data.effects, 1))

----------------------------------------------------------------------------
(* Leader detection *)

\* the line separator and the whitespace word of a text
NL == "\n"
Blank == " "

RECURSIVE lstripBlank(_)
lstripBlank(text) ==
    IF text # <<>> /\ Head(text) = Blank THEN lstripBlank(Tail(text)) ELSE text

RECURSIVE rstripBlank(_)
rstripBlank(text) ==
    IF text # <<>> /\ text[Len(text)] = Blank
    THEN rstripBlank(SubSeq(text, 1, Len(text) - 1)) ELSE text

\* str.strip()
strip(text) == rstripBlank(lstripBlank(text))

RECURSIVE splitlines(_, _, _)
\* str.splitlines(): cur is the line being collected from position i on
splitlines(text, i, cur) ==
    IF i > Len(text) THEN (IF cur = <<>> THEN <<>> ELSE <<cur>>)
    ELSE IF text[i] = NL THEN <<cur>> \o splitlines(text, i + 1, <<>>)
    ELSE splitlines(text, i + 1, Append(cur, text[i]))

\* glyphs are written as their code points: "U+25A0" is the black square
bullet_prefixes == {"U+25A0", "-", "U+2022", "*", "U+2013", "U+2014"}

\* the character class of the bullet regex of extract_leader_options
bullet_regex_class == {"U+25A0", "U+25CF", "U+25AA", "U+2022", "U+2023", "-", "U+2013", "U+2014"}

RECURSIVE lstripBullets(_)
\* str.lstrip("".join(bullet_prefixes)) on a line whose bullets are whole words
lstripBullets(line) ==
    IF line # <<>> /\ Head(line) \in bullet_prefixes THEN lstripBullets(Tail(line))
    ELSE line

OptionOfLine(line) ==
    LET stripped == strip(line) IN
    IF stripped = <<>> THEN <<>>
    ELSE IF Head(stripped) \in bullet_prefixes THEN strip(lstripBullets(stripped))
    ELSE IF Head(stripped) \in bullet_regex_class /\ lstripBlank(Tail(stripped)) # <<>>
         THEN strip(lstripBlank(Tail(stripped)))
    ELSE <<>>

RECURSIVE OptionsOfLines(_, _)
OptionsOfLines(lines, i) ==
    IF i > Len(lines) THEN <<>>
    ELSE LET option == OptionOfLine(lines[i]) IN
         (IF option # <<>> THEN <<option>> ELSE <<>>) \o OptionsOfLines(lines, i + 1)

extract_leader_options(descr) ==
    IF descr = <<>> THEN <<>> ELSE OptionsOfLines(splitlines(descr, 1, <<>>), 1)

RECURSIVE AppendAllIfAbsent(_, _, _)
AppendAllIfAbsent(lst, xs, i) ==
    IF i > Len(xs) THEN lst
    ELSE AppendAllIfAbsent(AppendIfAbsent(lst, xs[i]), xs, i + 1)

maybe_add_leader_metadata(profile, unit) ==
    IF ~isinstance_dict(profile) THEN unit
    ELSE IF lower(strip(Get(profile, "name", <<>>))) # <<"leader">> THEN unit
    ELSE LET options == extract_leader_options(extract_profile_description(profile))
             u1 == Put(unit, "isLeader", TRUE)
         IN IF options # <<>>
            THEN Put(u1, "leaderOptions",
                     AppendAllIfAbsent(Get(u1, "leaderOptions", <<>>), options, 1))
            ELSE u1

maybe_add_modifier_metadata(profile, unit) ==
    IF ~isinstance_dict(profile) THEN unit
    ELSE apply_modifier_effects(unit,
             extract_modifier_effects(extract_profile_description(profile)))

----------------------------------------------------------------------------
(* Reroll detection *)

\* a word the class [a-z']+ of REROLL_REGEX matches whole
IsAlphaWord(w) == ~isdigit(w) /\ w \notin {"re-roll", "reroll", "1s", NL, Blank, "6\""}

IsRollType(w) == w \in {"hit", "wound", "damage"}

\* the tail "(hit|wound|damage) roll(s)?( of (1s?|ones))?" at position j:
\* [ok, end, type, ones]
RerollTail(text, j) ==
    IF j + 1 <= Len(text) /\ IsRollType(text[j]) /\ StartsWith(text[j + 1], "roll")
    THEN IF j + 3 <= Len(text) /\ text[j + 2] = "of" /\ text[j + 3] \in {"1", "1s", "ones"}
         THEN [ok |-> TRUE, end |-> j + 4, type |-> text[j], ones |-> TRUE]
         ELSE [ok |-> TRUE, end |-> j + 2, type |-> text[j], ones |-> FALSE]
    ELSE [ok |-> FALSE, end |-> 0, type |-> "", ones |-> FALSE]

\* REROLL_REGEX at position i: "re-?roll", then as many [a-z']+ words as leave a
\* tail to match (the greedy star backtracks from the longest run of words)
RerollMatchAt(text, i) ==
    IF text[i] \notin {"re-roll", "reroll"}
    THEN [ok |-> FALSE, end |-> 0, type |-> "", ones |-> FALSE, from |-> i]
    ELSE LET starts == {j \in (i + 1)..Len(text) :
                          /\ \A m \in (i + 1)..(j - 1) : IsAlphaWord(text[m])
                          /\ RerollTail(text, j).ok}
         IN IF starts = {}
            THEN [ok |-> FALSE, end |-> 0, type |-> "", ones |-> FALSE, from |-> i]
            ELSE LET j == CHOOSE j \in starts : \A m \in starts : m <= j
                     t == RerollTail(text, j)
                 IN [ok |-> TRUE, end |-> t.end, type |-> t.type, ones |-> t.ones,
                     from |-> i]

\* the value the code derives from the matched segment
RerollValue(text, m) ==
    IF \E n \in m.from..(m.end - 1) : text[n] = "failed" THEN "failed"
    ELSE IF m.ones \/ \E n \in m.from..(m.end - 1) : text[n] \in {"1s", "ones"} THEN "ones"
    ELSE "all"

RECURSIVE RerollEffects(_, _, _)
\* "for match in REROLL_REGEX.finditer(normalized)": first value per key is kept
RerollEffects(effects, text, i) ==
    IF i > Len(text) THEN effects
    ELSE LET m == RerollMatchAt(text, i) IN
         IF ~m.ok THEN RerollEffects(effects, text, i + 1)
         ELSE RerollEffects(
                  DictSetDefault(effects, DictGet(ROLL_KEY_MAP, m.type, None),
                                 RerollValue(text, m)),
                  text, m.end)

extract_reroll_effects(descr) ==
    IF descr = <<>> THEN NoEffect
    ELSE LET normalized == lower(descr) IN
         IF ~\E i \in 1..Len(normalized) : normalized[i] = "re-roll" THEN NoEffect
         ELSE LET effects == RerollEffects(<<>>, normalized, 1) IN
              IF effects = <<>> THEN NoEffect
              ELSE [some |-> TRUE, scope |-> ScopeOf(normalized), effects |-> effects]

maybe_add_reroll_metadata(profile, unit) ==
    IF ~isinstance_dict(profile) THEN unit
    ELSE apply_reroll_effects(unit,
             extract_reroll_effects(extract_profile_description(profile)))

----------------------------------------------------------------------------
(* get_points_cost *)

\* JSON values of a cost entry: [t |-> "int", v |-> n], [t |-> "float", v |-> n]
\* (n its integral part), [t |-> "str", s |-> word], [t |-> "null", v |-> 0]
Returned(v) == [raised |-> None, value |-> v]
Raised(e) == [raised |-> e, value |-> 0]

\* Python's int(x)
int_of(x) ==
    CASE x.t = "int" -> Returned(x.v)
      [] x.t = "float" -> Returned(x.v)
      [] x.t = "str" -> IF isdigit(x.s) THEN Returned(int(x.s)) ELSE Raised("ValueError")
      [] OTHER -> Raised("TypeError")

RECURSIVE PointsOfCosts(_, _)
\* "for cost in selection['costs']: if cost['name'] == 'pts': return int(cost['value'])"
PointsOfCosts(costs, i) ==
    IF i > Len(costs) THEN Returned(0)
    ELSE IF "name" \notin DOMAIN costs[i] THEN Raised("KeyError")
    ELSE IF costs[i].name = "pts"
         THEN IF "value" \notin DOMAIN costs[i] THEN Raised("KeyError")
              ELSE int_of(costs[i].value)
    ELSE PointsOfCosts(costs, i + 1)

get_points_cost(sel) ==
    IF "costs" \in DOMAIN sel THEN PointsOfCosts(sel.costs, 1) ELSE Returned(0)

----------------------------------------------------------------------------
(* Unit Builder: create_unit and what it calls *)

is_configuration(sel) == Get(sel, "type", "") = "configuration"

is_unit_or_model(sel) == Get(sel, "type", "") \in {"unit", "model"}

RECURSIVE PrimaryCategory(_, _)
PrimaryCategory(categories, i) ==
    IF i > Len(categories) THEN "Unknown"
    ELSE IF Get(categories[i], "primary", FALSE) THEN categories[i].name
    ELSE PrimaryCategory(categories, i + 1)

get_primary_category(sel) ==
    IF "categories" \in DOMAIN sel THEN PrimaryCategory(sel.categories, 1) ELSE "Unknown"

EmptyStats ==
    [move |-> "", toughness |-> "", save |-> "", wounds |-> "", leadership |-> "",
     objectiveControl |-> ""]

StatField(name) ==
    CASE name = "M" -> "move"
      [] name = "T" -> "toughness"
      [] name = "SV" -> "save"
      [] name = "W" -> "wounds"
      [] name = "LD" -> "leadership"
      [] name = "OC" -> "objectiveControl"
      [] OTHER -> None

RECURSIVE StatsOfChars(_, _, _, _)
\* the loop over one profile's characteristics; keep is the fallback's
\* "and not stats[...]" guard
StatsOfChars(stats, chars, i, keep) ==
    IF i > Len(chars) THEN stats
    ELSE LET f == StatField(chars[i].name)
             value == Get(chars[i], "text", "")
         IN StatsOfChars(
                IF f # None /\ (~keep \/ stats[f] = "") THEN [stats EXCEPT ![f] = value]
                ELSE stats,
                chars, i + 1, keep)

RECURSIVE StatsOfProfiles(_, _, _, _)
StatsOfProfiles(stats, profiles, i, keep) ==
    IF i > Len(profiles) THEN stats
    ELSE StatsOfProfiles(
             IF Get(profiles[i], "typeName", None) = "Unit"
                /\ "characteristics" \in DOMAIN profiles[i]
             THEN StatsOfChars(stats, profiles[i].characteristics, 1, keep)
             ELSE stats,
             profiles, i + 1, keep)

RECURSIVE StatsOfSubselectionsOverwrite(_, _, _)
\* a fallback without the "and not stats[...]" guards: the last child wins
StatsOfSubselectionsOverwrite(stats, subs, i) ==
    IF i > Len(subs) THEN stats
    ELSE StatsOfSubselectionsOverwrite(
             IF is_configuration(subs[i]) \/ ~is_unit_or_model(subs[i]) THEN stats
             ELSE StatsOfProfiles(stats, Get(subs[i], "profiles", <<>>), 1, FALSE),
             subs, i + 1)

RECURSIVE StatsOfSubselections(_, _, _)
StatsOfSubselections(stats, subs, i) ==
    IF i > Len(subs) THEN stats
    ELSE StatsOfSubselections(
             IF is_configuration(subs[i]) \/ ~is_unit_or_model(subs[i]) THEN stats
             ELSE StatsOfProfiles(stats, Get(subs[i], "profiles", <<>>), 1, TRUE),
             subs, i + 1)

AllEmpty(stats) == \A f \in DOMAIN stats : stats[f] = ""

\* the empty dict {} the function returns when no value was found
NoStats == [none |-> TRUE]

extract_unit_stats(sel) ==
    LET own == StatsOfProfiles(EmptyStats, Get(sel, "profiles", <<>>), 1, FALSE)
        stats == IF AllEmpty(own) /\ "selections" \in DOMAIN sel
                 THEN StatsOfSubselections(own, sel.selections, 1)
                 ELSE own
    IN IF AllEmpty(stats) THEN NoStats ELSE stats

\* "if rule_id and rule_id not in unit['rules']: unit['rules'].append(rule_id)"
AddRuleRef(unit, rule_id) ==
    IF Truthy(rule_id) THEN Put(unit, "rules", AppendIfAbsent(Get(unit, "rules", <<>>), rule_id))
    ELSE unit

\* a is a context that carries the unit being built (a.unit) and the output
\* structure (a.opt)
RECURSIVE UnitRules(_, _, _)
\* "for rule in selection['rules']": register, then reference once on the unit
UnitRules(a, rules, i) ==
    IF i > Len(rules) THEN a
    ELSE LET r == add_rule(rules[i], a.opt) IN
         UnitRules([a EXCEPT !.unit = AddRuleRef(@, r.ret), !.opt = r.optimized], rules, i + 1)

AddAbilityRef(unit, ability_id) ==
    IF Truthy(ability_id)
    THEN Put(unit, "abilities", AppendIfAbsent(Get(unit, "abilities", <<>>), ability_id))
    ELSE unit

\* the body of the Abilities branch for one profile
AbilityOnUnit(a, profile) ==
    LET r == add_ability(profile, a.opt) IN
    [a EXCEPT !.unit = maybe_add_modifier_metadata(profile,
                           maybe_add_reroll_metadata(profile,
                               maybe_add_leader_metadata(profile, AddAbilityRef(@, r.ret)))),
              !.opt = r.optimized]

RECURSIVE UnitAbilities(_, _, _)
UnitAbilities(a, profiles, i) ==
    IF i > Len(profiles) THEN a
    ELSE UnitAbilities(IF Get(profiles[i], "typeName", None) = "Abilities"
                       THEN AbilityOnUnit(a, profiles[i]) ELSE a,
                       profiles, i + 1)

\* the id of a new unit: the selection's own, else the uuid4 token drawn for the
\* call (Python evaluates the default argument, so a token is drawn either way)
\* str(uuid.uuid4())[:8]: the n-th token of a run, no two alike within a run
uuid4(rnd) == rnd.seed \o ToString(rnd.n)

UnitIdFresh(sel, rnd) == uuid4(rnd)

UnitId(sel, rnd) == IF "id" \in DOMAIN sel THEN sel.id ELSE uuid4(rnd)

\* [unit, opt, rnd]: the new unit, the output structure and the uuid4 generator
\* after the call
create_unit(sel, opt, rnd) ==
    UnitAbilities(
        UnitRules([unit |-> [id |-> UnitId(sel, rnd),
                             name |-> sel.name,
                             type |-> get_primary_category(sel),
                             stats |-> extract_unit_stats(sel),
                             points |-> get_points_cost(sel).value,
                             count |-> Get(sel, "number", 1)],
                   opt |-> opt,
                   rnd |-> [rnd EXCEPT !.n = @ + 1]],
                  Get(sel, "rules", <<>>), 1),
        Get(sel, "profiles", <<>>), 1)

----------------------------------------------------------------------------
(* Weapon Aggregator: extract_weapons_abilities_rules *)

FiringModeMarker == "U+27A4"
Separator == "-"

RECURSIVE Characteristics(_, _, _)
Characteristics(d, chars, i) ==
    IF i > Len(chars) THEN d
    ELSE Characteristics(DictSet(d, Lower(chars[i].name), Get(chars[i], "text", <<>>)),
                         chars, i + 1)

extract_characteristics(profile) ==
    IF "characteristics" \in DOMAIN profile
    THEN Characteristics(<<>>, profile.characteristics, 1) ELSE <<>>

\* '"hazardous" in text.lower()' and '"overcharge" in text.lower()'
HasWord(text, w) == \E i \in 1..Len(text) : Lower(text[i]) = w

\* name.split(" - ")[0]: the words before the first separator that stands
\* between two words
BaseName(name) ==
    LET seps == {i \in 2..(Len(name) - 1) : name[i] = Separator} IN
    IF seps = {} THEN name
    ELSE SubSeq(name, 1, (CHOOSE i \in seps : \A j \in seps : i <= j) - 1)

OverchargeMode(name) == IF HasWord(name, "overcharge") THEN "overcharge" ELSE "standard"

IsFiringMode(name) == name # <<>> /\ Head(name) = FiringModeMarker

\* the weapon dict built from a weapon profile
WeaponOf(profile) ==
    LET w0 == [id |-> profile.id, name |-> profile.name, type |-> profile.typeName,
               characteristics |-> extract_characteristics(profile)]
        w1 == IF HasWord(DictGet(w0.characteristics, "keywords", <<>>), "hazardous")
                 \/ HasWord(profile.name, "hazardous")
              THEN Put(w0, "is_hazardous", TRUE) ELSE w0
    IN IF IsFiringMode(profile.name)
       THEN Put(Put(w1, "base_name", BaseName(profile.name)),
                "overcharge_mode", OverchargeMode(profile.name))
       ELSE w1

LinkWeaponBothModes(unit, weapon) ==
    IF "base_name" \notin DOMAIN weapon THEN unit
    ELSE Put(unit, "linked_weapons",
             DictSet(Get(unit, "linked_weapons", <<>>), weapon.base_name,
                     [standard |-> weapon.id, overcharge |-> weapon.id]))

\* unit["linked_weapons"][base_name][mode] = weapon_id
LinkWeapon(unit, weapon) ==
    IF "base_name" \notin DOMAIN weapon THEN unit
    ELSE LET linked == DictSetDefault(Get(unit, "linked_weapons", <<>>), weapon.base_name,
                                      [standard |-> None, overcharge |-> None])
             slot == DictGet(linked, weapon.base_name, None)
         IN Put(unit, "linked_weapons",
                DictSet(linked, weapon.base_name,
                        [slot EXCEPT ![weapon.overcharge_mode] = weapon.id]))

CountWeaponPerModel(wc, weapon, number_of_weapons, model_count) ==
    IF DictHas(wc, weapon.id)
    THEN LET e == DictGet(wc, weapon.id, None) IN
         DictSet(wc, weapon.id,
                 [e EXCEPT !.count = @ + number_of_weapons * model_count,
                           !.models_with_weapon = @ + model_count])
    ELSE DictSet(wc, weapon.id,
                 [weapon |-> weapon, count |-> number_of_weapons * model_count,
                  models_with_weapon |-> model_count])

\* the update of weapon_counts for one weapon profile
CountWeapon(wc, weapon, number_of_weapons, model_count) ==
    IF DictHas(wc, weapon.id)
    THEN LET e == DictGet(wc, weapon.id, None) IN
         DictSet(wc, weapon.id,
                 [e EXCEPT !.count = @ + number_of_weapons,
                           !.models_with_weapon = @ + model_count])
    ELSE DictSet(wc, weapon.id,
                 [weapon |-> weapon, count |-> number_of_weapons,
                  models_with_weapon |-> model_count])

ProcessProfileWeaponsOnly(a, sel, profile, model_count) ==
    IF Get(profile, "typeName", None) \in {"Ranged Weapons", "Melee Weapons"}
    THEN LET weapon == WeaponOf(profile) IN
         [a EXCEPT !.unit = LinkWeapon(@, weapon),
                   !.wc = CountWeapon(@, weapon, Get(sel, "number", 1), model_count)]
    ELSE a

\* one profile of a selection; a is the aggregator's context: the unit being
\* built, the output structure and weapon_counts
ProcessProfile(a, sel, profile, model_count) ==
    IF Get(profile, "typeName", None) \in {"Ranged Weapons", "Melee Weapons"}
    THEN LET weapon == WeaponOf(profile) IN
         [a EXCEPT !.unit = LinkWeapon(@, weapon),
                   !.wc = CountWeapon(@, weapon, Get(sel, "number", 1), model_count)]
    ELSE IF Get(profile, "typeName", None) = "Abilities"
    THEN AbilityOnUnit(a, profile)
    ELSE a

RECURSIVE ProcessProfiles(_, _, _, _, _)
ProcessProfiles(a, sel, profiles, i, model_count) ==
    IF i > Len(profiles) THEN a
    ELSE ProcessProfiles(ProcessProfile(a, sel, profiles[i], model_count),
                         sel, profiles, i + 1, model_count)

RECURSIVE process_selection(_, _, _)
RECURSIVE ProcessSubselections(_, _, _, _)

process_selection(a, sel, model_count) ==
    ProcessSubselections(
        UnitRules(ProcessProfiles(a, sel, Get(sel, "profiles", <<>>), 1, model_count),
                  Get(sel, "rules", <<>>), 1),
        Get(sel, "selections", <<>>), 1, model_count)

RECURSIVE ProcessSubselectionsAll(_, _, _, _)
ProcessSubselectionsAll(a, subs, i, model_count) ==
    IF i > Len(subs) THEN a
    ELSE ProcessSubselectionsAll(
             process_selection(a, subs[i],
                 IF is_unit_or_model(subs[i]) THEN Get(subs[i], "number", 1)
                 ELSE model_count),
             subs, i + 1, model_count)

ProcessSubselections(a, subs, i, model_count) ==
    IF i > Len(subs) THEN a
    ELSE ProcessSubselections(
             IF is_configuration(subs[i]) THEN a
             ELSE process_selection(a, subs[i],
                      IF is_unit_or_model(subs[i]) THEN Get(subs[i], "number", 1)
                      ELSE model_count),
             subs, i + 1, model_count)

RECURSIVE ProcessTopFromOne(_, _, _)
ProcessTopFromOne(a, sels, i) ==
    IF i > Len(sels) THEN a
    ELSE ProcessTopFromOne(
             IF is_configuration(sels[i]) THEN a
             ELSE process_selection(a, sels[i],
                      IF is_unit_or_model(sels[i]) THEN Get(sels[i], "number", 1)
                      ELSE 1),
             sels, i + 1)

RECURSIVE ProcessTop(_, _, _)
\* "for selection in selections" at the end of extract_weapons_abilities_rules
ProcessTop(a, sels, i) ==
    IF i > Len(sels) THEN a
    ELSE ProcessTop(
             IF is_configuration(sels[i]) THEN a
             ELSE process_selection(a, sels[i],
                      IF is_unit_or_model(sels[i]) THEN Get(sels[i], "number", 1)
                      ELSE Get(a.unit, "count", 1)),
             sels, i + 1)

\* the weapons list: weapon_counts.values() with the totals written on each weapon
WeaponsOf(wc) ==
    [i \in 1..Len(wc) |->
        Put(Put(wc[i].v.weapon, "count", wc[i].v.count),
            "models_with_weapon", wc[i].v.models_with_weapon)]

\* "if weapon_counts: unit['weapons'] = ...", written to the unit at heap index ref
StoreWeapons(a, ref) ==
    [a.opt EXCEPT !.heap[ref] =
        IF a.wc # <<>> THEN Put(a.unit, "weapons", WeaponsOf(a.wc)) ELSE a.unit]

\* on the unit at heap index ref
extract_weapons_abilities_rules(sels, opt, ref) ==
    StoreWeapons(ProcessTop([unit |-> opt.heap[ref], opt |-> opt, wc |-> <<>>], sels, 1), ref)

----------------------------------------------------------------------------
(* Tree Walker: extract_units *)

NoParent == 0

register_default_attachment(opt, host, leader) ==
    LET host_id == Get(opt.heap[host], "id", None)
        leader_id == Get(opt.heap[leader], "id", None)
    IN IF ~Truthy(host_id) \/ ~Truthy(leader_id) THEN opt
       ELSE [opt EXCEPT
               !.attachments =
                   DictSet(@, host_id, AppendIfAbsent(DictGet(@, host_id, <<>>), leader_id)),
               !.heap[leader] = Put(@, "defaultHostId", host_id)]

PlaceUnitEverywhere(opt, parent, sel, ref) ==
    IF parent # NoParent
    THEN [opt EXCEPT !.heap[parent] = Put(@, "models", Append(Get(@, "models", <<>>), ref)),
                     !.units = Append(@, ref)]
    ELSE [opt EXCEPT !.units = Append(@, ref)]

PlaceUnitUnderParent(opt, parent, sel, ref) ==
    IF parent # NoParent
    THEN [opt EXCEPT !.heap[parent] = Put(@, "models", Append(Get(@, "models", <<>>), ref))]
    ELSE [opt EXCEPT !.units = Append(@, ref)]

\* the unit goes to parent["models"] or to optimized["units"]
PlaceUnit(opt, parent, sel, ref) ==
    IF parent # NoParent /\ Get(sel, "type", None) = "model"
    THEN [opt EXCEPT !.heap[parent] = Put(@, "models", Append(Get(@, "models", <<>>), ref))]
    ELSE [opt EXCEPT !.units = Append(@, ref)]

\* "if parent_unit and not parent_unit.get('isLeader') and unit.get('isLeader')
\*  and selection.get('type') != 'model'"
AttachLeader(opt, parent, sel, ref) ==
    IF /\ parent # NoParent
       /\ ~Get(opt.heap[parent], "isLeader", FALSE)
       /\ Get(opt.heap[ref], "isLeader", FALSE)
       /\ Get(sel, "type", None) # "model"
    THEN register_default_attachment(opt, parent, ref)
    ELSE opt

\* the new unit u = create_unit(...) enters the output structure; c is the walk's
\* context: opt the output structure, rnd the state of the uuid4 generator, built
\* the history of create_unit calls (heap index and path of the selection)
EnterUnit(u, c, parent, sel, path) ==
    LET ref == Len(u.opt.heap) + 1 IN
    [opt |-> AttachLeader(PlaceUnit([u.opt EXCEPT !.heap = Append(@, u.unit)],
                                    parent, sel, ref),
                          parent, sel, ref),
     rnd |-> u.rnd,
     built |-> Append(c.built, [ref |-> ref, path |-> path])]

RECURSIVE extract_units(_, _, _, _, _)

\* the weapons of the unit just built (the last of c.built), then its sub-selections
WalkUnit(sel, c, path) ==
    IF "selections" \in DOMAIN sel
    THEN extract_units(sel.selections,
             [c EXCEPT !.opt = extract_weapons_abilities_rules(
                                   sel.selections, @, c.built[Len(c.built)].ref)],
             c.built[Len(c.built)].ref, path, 1)
    ELSE c

ExtractUnit(sel, c, parent, path) ==
    IF is_configuration(sel) THEN c
    ELSE IF is_unit_or_model(sel)
    THEN WalkUnit(sel, EnterUnit(create_unit(sel, c.opt, c.rnd), c, parent, sel, path), path)
    ELSE extract_units(Get(sel, "selections", <<>>), c, parent, path, 1)

\* "for selection in selections" from the i-th on; path is the path of the
\* selection that owns the list
extract_units(sels, c, parent, path, i) ==
    IF i > Len(sels) THEN c
    ELSE extract_units(sels, ExtractUnit(sels[i], c, parent, Append(path, i)),
                       parent, path, i + 1)

----------------------------------------------------------------------------
(* Roster Assembler: optimize_warhammer_roster *)

RECURSIVE ForceRules(_, _, _)
ForceRules(opt, rules, i) ==
    IF i > Len(rules) THEN opt
    ELSE ForceRules(add_rule(rules[i], opt).optimized, rules, i + 1)

RECURSIVE Forces(_, _, _)
Forces(c, forces, i) ==
    IF i > Len(forces) THEN c
    ELSE Forces(IF ~isinstance_dict(forces[i]) THEN c
                ELSE extract_units(Get(forces[i], "selections", <<>>),
                         [c EXCEPT !.opt = ForceRules(@, Get(forces[i], "rules", <<>>), 1)],
                         NoParent, <<i>>, 1),
                forces, i + 1)

\* seed stands for the randomness uuid4 draws from in this run
optimize_warhammer_roster(data, seed) ==
    Forces([opt |-> EmptyOptimized, rnd |-> [seed |-> seed, n |-> 1], built |-> <<>>],
           Get(Get(data, "roster", <<>>), "forces", <<>>), 1)

----------------------------------------------------------------------------
(* Values of the variables a specification does not use *)

IdleWalk == /\ input = [forces |-> <<>>]
            /\ rerun = EmptyOptimized
IdleMiner == /\ description = [words |-> <<>>, clauses |-> <<>>, marker |-> FALSE]
             /\ mined = NoEffect
IdleMerge == target = [id |-> "u1"]
IdleTables == last = [fn |-> "none", arg |-> [id |-> ""], ret |-> None]
IdlePoints == /\ selection = [name |-> "none"]
              /\ result = Returned(0)

----------------------------------------------------------------------------
(* SpecMiner: extract_modifier_effects on texts composed of modifier phrases *)

MaxClauses == 2
MaxMagnitude == 2

Verbs == {"add", "subtract", "improve", "worsen"}

Clauses == [verb : Verbs, n : 1..MaxMagnitude, the : BOOLEAN,
            type : {"hit", "wound"}, plural : BOOLEAN]

ClauseSeqs == UNION {[1..n -> Clauses] : n \in 1..MaxClauses}

Capital(w) ==
    CASE w = "add" -> "Add"
      [] w = "subtract" -> "Subtract"
      [] w = "improve" -> "Improve"
      [] w = "worsen" -> "Worsen"
      [] w = "hit" -> "Hit"
      [] w = "wound" -> "Wound"
      [] OTHER -> w

\* the words of one phrase, e.g. Add 1 to the Hit rolls / worsen wound roll by 2
PhraseWords(c, cap) ==
    LET verb == IF cap THEN Capital(c.verb) ELSE c.verb
        type == IF cap THEN Capital(c.type) ELSE c.type
        the == IF c.the THEN <<"the">> ELSE <<>>
        roll == IF c.plural THEN "rolls" ELSE "roll"
    IN CASE c.verb = "add" -> <<verb, Digits[c.n], "to">> \o the \o <<type, roll>>
         [] c.verb = "subtract" -> <<verb, Digits[c.n], "from">> \o the \o <<type, roll>>
         [] OTHER -> <<verb>> \o the \o <<type, roll, "by", Digits[c.n]>>

RECURSIVE TextOf(_, _, _)
TextOf(cs, cap, i) ==
    IF i > Len(cs) THEN <<"for", "attacks", "made", "with", "this", "weapon">>
    ELSE PhraseWords(cs[i], cap) \o TextOf(cs, cap, i + 1)

Text(cs, marker, cap) ==
    (IF marker THEN <<(IF cap THEN "While" ELSE "while"), "this", "unit", "is", "near">>
     ELSE <<>>) \o TextOf(cs, cap, 1)

InitMiner ==
    /\ pc = "start"
    /\ optimized = EmptyOptimized
    /\ history = [calls |-> 0]
    /\ \E cs \in ClauseSeqs, marker \in BOOLEAN, cap \in BOOLEAN :
          description = [words |-> Text(cs, marker, cap), clauses |-> cs, marker |-> marker]
    /\ mined = NoEffect
    /\ IdleWalk /\ IdleMerge /\ IdleTables /\ IdlePoints

\* one call of extract_modifier_effects on the description
MineModifiers ==
    /\ pc = "start"
    /\ mined' = extract_modifier_effects(description.words)
    /\ pc' = "mined"
    /\ UNCHANGED <<input, optimized, rerun, description, target, history, last,
                   selection, result>>

NextMiner == MineModifiers

SpecMiner == InitMiner /\ [][NextMiner]_vars

\* C2: a description holding exactly one phrase "add N to (the) hit|wound roll(s)"
\* and no unit-scope marker is mined to scope "self" with effects[kind] = N
C2_AddPhraseCountedOnce ==
    (/\ pc = "mined"
     /\ Len(description.clauses) = 1
     /\ description.clauses[1].verb = "add"
     /\ ~description.marker)
    => /\ mined.some
       /\ mined.scope = "self"
       /\ DictGet(mined.effects,
                  IF description.clauses[1].type = "hit" THEN "hits" ELSE "wounds", 0)
            = description.clauses[1].n

----------------------------------------------------------------------------
(* SpecPoints: get_points_cost on selections with well- and ill-formed costs *)

MaxPoints == 2
MaxCosts == 2

OptField(k, vals) == {<<>>} \cup {k :> v : v \in vals}

CostValues ==
    [t : {"int", "float"}, v : 0..MaxPoints]
    \cup [t : {"str"}, s : {"1", "abc"}]
    \cup [t : {"null"}, v : {0}]

CostEntries ==
    {a @@ b : a \in OptField("name", {"pts", "PL"}), b \in OptField("value", CostValues)}

CostSelections ==
    {[name |-> "sel"]}
    \cup {[name |-> "sel", costs |-> cs] :
            cs \in UNION {[1..n -> CostEntries] : n \in 0..MaxCosts}}

InitPoints ==
    /\ pc = "start"
    /\ optimized = EmptyOptimized
    /\ history = [calls |-> 0]
    /\ selection \in CostSelections
    /\ result = Returned(0)
    /\ IdleWalk /\ IdleMiner /\ IdleMerge /\ IdleTables

\* one call of get_points_cost on the selection
CallGetPointsCost ==
    /\ pc = "start"
    /\ result' = get_points_cost(selection)
    /\ pc' = "points"
    /\ UNCHANGED <<input, optimized, rerun, description, mined, target, history, last,
                   selection>>

NextPoints == CallGetPointsCost

SpecPoints == InitPoints /\ [][NextPoints]_vars

\* the first cost entry named pts of a selection, as an index (0: none)
FirstPts(sel) ==
    IF "costs" \notin DOMAIN sel THEN 0
    ELSE IF \E i \in 1..Len(sel.costs) : Get(sel.costs[i], "name", None) = "pts"
         THEN CHOOSE i \in 1..Len(sel.costs) :
                /\ Get(sel.costs[i], "name", None) = "pts"
                /\ \A j \in 1..(i - 1) : Get(sel.costs[j], "name", None) # "pts"
         ELSE 0

\* whether a cost value is an integer, or text that reads as one
ParsableValue(x) == x.t \in {"int", "float"} \/ (x.t = "str" /\ isdigit(x.s))

\* C10: get_points_cost never raises; it returns the integer value of the pts
\* entry, and 0 when that entry is absent or its value cannot be parsed
C10_PointsCostTolerant ==
    (/\ pc = "points"
     /\ "costs" \in DOMAIN selection =>
           \A i \in 1..Len(selection.costs) : DOMAIN selection.costs[i] = {"name", "value"})
    =>  /\ result.raised = None
        /\ LET i == FirstPts(selection) IN
           IF i = 0 \/ ~ParsableValue(selection.costs[i].value)
           THEN result.value = 0
           ELSE result.value = int_of(selection.costs[i].value).value

----------------------------------------------------------------------------
(* SpecTables: any sequence of add_rule / add_ability calls on the tables *)

\* the optional fields a rule stub carries besides its id
RuleFields ==
    { <<>>,
      "name" :> "Rule A",
      "description" :> "text",
      "hidden" :> TRUE,
      ("name" :> "Rule A") @@ ("description" :> "text") @@ ("hidden" :> TRUE) }

RuleStubs == {a @@ b : a \in OptField("id", {"r1", "r2", ""}), b \in RuleFields}

AbilityProfiles ==
    {a @@ b @@ c :
        a \in OptField("id", {"a1", ""}),
        b \in OptField("name", {<<"Ability">>}),
        c \in OptField("characteristics",
                { <<[name |-> "Description", text |-> <<"one">>]>>,
                  <<[name |-> "Range"], [name |-> "Description", text |-> <<"two">>],
                    [name |-> "Description", text |-> <<"one">>]>> })}

NonDicts == {[nondict |-> "text"]}

InitTables ==
    /\ pc = "tables"
    /\ optimized = EmptyOptimized
    /\ history = [rules |-> <<>>, abilities |-> <<>>]
    /\ IdleWalk /\ IdleMiner /\ IdleMerge /\ IdleTables /\ IdlePoints

\* history.rules / history.abilities: id -> the argument of the first call that
\* passed that id
CallAddRule ==
    \E rule \in RuleStubs \cup NonDicts :
        LET r == add_rule(rule, optimized) IN
        /\ optimized' = r.optimized
        /\ last' = [fn |-> "add_rule", arg |-> rule, ret |-> r.ret]
        /\ history' = IF r.ret # None
                      THEN [history EXCEPT !.rules = DictSetDefault(@, r.ret, rule)]
                      ELSE history
        /\ UNCHANGED <<input, rerun, pc, description, mined, target, selection, result>>

CallAddAbility ==
    \E profile \in AbilityProfiles \cup NonDicts :
        LET r == add_ability(profile, optimized) IN
        /\ optimized' = r.optimized
        /\ last' = [fn |-> "add_ability", arg |-> profile, ret |-> r.ret]
        /\ history' = IF r.ret # None
                      THEN [history EXCEPT !.abilities = DictSetDefault(@, r.ret, profile)]
                      ELSE history
        /\ UNCHANGED <<input, rerun, pc, description, mined, target, selection, result>>

NextTables == CallAddRule \/ CallAddAbility

SpecTables == InitTables /\ [][NextTables]_vars

\* each key occurs once in a table, and keys an entry under its record's id
KeysOnce(table) ==
    /\ \A i, j \in 1..Len(table) : table[i].k = table[j].k => i = j
    /\ \A i \in 1..Len(table) : table[i].v.id = table[i].k

\* the record a first call with this stub / profile is to leave in the table
RuleOfStub(stub) ==
    [id |-> stub.id,
     name |-> IF "name" \in DOMAIN stub THEN stub.name ELSE "Unnamed Rule",
     description |-> IF "description" \in DOMAIN stub THEN stub.description ELSE "",
     hidden |-> IF "hidden" \in DOMAIN stub THEN stub.hidden ELSE FALSE]

AbilityOfProfile(profile) ==
    [id |-> profile.id,
     name |-> IF "name" \in DOMAIN profile THEN profile.name ELSE "Unnamed Ability",
     description |->
        LET chars == IF "characteristics" \in DOMAIN profile
                     THEN profile.characteristics ELSE <<>>
            descs == {i \in 1..Len(chars) :
                        "name" \in DOMAIN chars[i] /\ chars[i].name = "Description"}
        IN IF descs = {} THEN <<>>
           ELSE LET i == CHOOSE i \in descs : \A j \in descs : i <= j
                IN IF "text" \in DOMAIN chars[i] THEN chars[i].text ELSE <<>>]

C5_TablesState ==
    /\ KeysOnce(optimized.rules)
    /\ KeysOnce(optimized.abilities)
    /\ DictKeys(optimized.rules) = DictKeys(history.rules)
    /\ DictKeys(optimized.abilities) = DictKeys(history.abilities)
    /\ \A i \in 1..Len(optimized.rules) :
          optimized.rules[i].v =
              RuleOfStub(DictGet(history.rules, optimized.rules[i].k, [id |-> None]))
    /\ \A i \in 1..Len(optimized.abilities) :
          optimized.abilities[i].v =
              AbilityOfProfile(DictGet(history.abilities, optimized.abilities[i].k,
                                       [id |-> None]))

\* a call whose id is already a key returns the id and leaves the table as it was
C5_TablesStep ==
    /\ (last'.fn = "add_rule" /\ "id" \in DOMAIN last'.arg
            /\ DictHas(optimized.rules, last'.arg.id))
        => (last'.ret = last'.arg.id /\ optimized'.rules = optimized.rules)
    /\ (last'.fn = "add_ability" /\ "id" \in DOMAIN last'.arg
            /\ DictHas(optimized.abilities, last'.arg.id))
        => (last'.ret = last'.arg.id /\ optimized'.abilities = optimized.abilities)
    /\ \A i \in 1..Len(optimized.rules) :
          i <= Len(optimized'.rules) /\ optimized'.rules[i] = optimized.rules[i]
    /\ \A i \in 1..Len(optimized.abilities) :
          i <= Len(optimized'.abilities) /\ optimized'.abilities[i] = optimized.abilities[i]

\* C5: after any sequence of add_rule / add_ability calls each id is a key of its
\* table exactly once and keeps the record built by the first call with that id;
\* a later call with the same id and other fields returns the id and changes nothing
C5_InsertOrFetch == []C5_TablesState /\ [][C5_TablesStep]_vars

\* a rule id was registered twice with different names and the first name is stored
C5_Witness ==
    /\ last.fn = "add_rule"
    /\ last.ret = "r1"
    /\ "name" \in DOMAIN last.arg
    /\ DictGet(optimized.rules, "r1", [name |-> ""]).name = "Unnamed Rule"
    /\ DictHas(optimized.abilities, "a1")

----------------------------------------------------------------------------
(* SpecMerge: apply_reroll_effects / apply_modifier_effects on one unit dict *)

MaxApply == 3
MaxModifier == 1

RollKeys == <<"hits", "wounds">>

\* effects dicts over RollKeys, in the order the miner inserts keys
EffectsOver(values) ==
    {<<[k |-> RollKeys[i], v |-> v]>> : i \in 1..Len(RollKeys), v \in values}
    \cup {<<[k |-> RollKeys[1], v |-> v], [k |-> RollKeys[2], v |-> w]>> :
            v \in values, w \in values}

RerollData == [some : {TRUE}, scope : {"self", "unit"}, effects : EffectsOver({"all", "ones"})]

ModifierData ==
    [some : {TRUE}, scope : {"self", "unit"},
     effects : EffectsOver((-MaxModifier..MaxModifier) \ {0})]

LeaderProfile ==
    [id |-> "a1", name |-> <<"Leader">>, typeName |-> "Abilities",
     characteristics |-> <<[name |-> "Description",
                            text |-> <<"This", "model", "can", "be", "attached", "to", NL,
                                       "U+25A0", Blank, "Intercessor Squad">>]>>]

InitMerge ==
    /\ pc = "merge"
    /\ optimized = EmptyOptimized
    /\ target = [id |-> "u1"]
    /\ history = [fn |-> "none", data |-> NoEffect, before |-> [id |-> "u1"],
                  first |-> [id |-> "u1"], reps |-> 0, calls |-> 0]
    /\ IdleWalk /\ IdleMiner /\ IdleTables /\ IdlePoints

\* history: the current streak of identical calls: its function and argument, the
\* target before the streak (before) and after its first call (first), its length
Record(fn, data, after) ==
    IF history.fn = fn /\ history.data = data
    THEN [history EXCEPT !.reps = @ + 1, !.calls = @ + 1]
    ELSE [fn |-> fn, data |-> data, before |-> target, first |-> after, reps |-> 1,
          calls |-> history.calls + 1]

ApplyReroll ==
    /\ history.calls < MaxApply
    /\ \E data \in RerollData :
          /\ target' = apply_reroll_effects(target, data)
          /\ history' = Record("reroll", data, apply_reroll_effects(target, data))
    /\ UNCHANGED <<input, optimized, rerun, pc, description, mined, last, selection, result>>

ApplyModifier ==
    /\ history.calls < MaxApply
    /\ \E data \in ModifierData :
          /\ target' = apply_modifier_effects(target, data)
          /\ history' = Record("modifier", data, apply_modifier_effects(target, data))
    /\ UNCHANGED <<input, optimized, rerun, pc, description, mined, last, selection, result>>

\* the unit becomes a leader between merges (maybe_add_leader_metadata)
SetLeader ==
    /\ ~Get(target, "isLeader", FALSE)
    /\ target' = maybe_add_leader_metadata(LeaderProfile, target)
    /\ history' = [history EXCEPT !.fn = "leader", !.data = NoEffect, !.before = target,
                                  !.first = maybe_add_leader_metadata(LeaderProfile, target),
                                  !.reps = 1]
    /\ UNCHANGED <<input, optimized, rerun, pc, description, mined, last, selection, result>>

NextMerge == ApplyReroll \/ ApplyModifier \/ SetLeader

SpecMerge == InitMerge /\ [][NextMerge]_vars

RerollFields == {"unitRerolls", "leaderAuraRerolls"}

\* the modifier a unit stores for a roll kind, over both places it can be stored
StoredModifier(unit, key) ==
    DictGet(Get(unit, "unitModifiers", <<>>), key, 0)
    + DictGet(Get(unit, "leaderAuraModifiers", <<>>), key, 0)

C8_Reapplied ==
    /\ (history.fn = "reroll" /\ history.reps >= 2) => target = history.first
    /\ (history.fn = "modifier" /\ history.reps = 2) =>
          \A i \in 1..Len(history.data.effects) :
              LET e == history.data.effects[i] IN
              StoredModifier(target, e.k) = StoredModifier(history.before, e.k) + 2 * e.v

\* a stored reroll kind is never replaced, whatever is applied later
C8_FirstWriterWins ==
    \A f \in RerollFields :
        \A k \in DictKeys(Get(target, f, <<>>)) :
            DictGet(Get(target', f, <<>>), k, None) = DictGet(Get(target, f, <<>>), k, None)

\* C8: applying the same reroll effect twice leaves every stored reroll kind as the
\* first application left it (and a later, different value does not replace it);
\* applying the same numeric modifier twice stores the doubled value
C8_MergeReapplication == []C8_Reapplied /\ [][C8_FirstWriterWins]_vars

\* a modifier applied twice on a leader that already holds a reroll kind
C8_Witness ==
    /\ history.fn = "modifier"
    /\ history.reps = 2
    /\ history.data.scope = "unit"
    /\ Get(target, "isLeader", FALSE)
    /\ Get(target, "unitRerolls", <<>>) # <<>>
    /\ DictGet(Get(target, "leaderAuraModifiers", <<>>), "hits", 0) = 2

----------------------------------------------------------------------------
(* Input trees *)

WithSelections(p, f) == IF f = <<>> THEN p ELSE p @@ ("selections" :> f)

RECURSIVE ForestsOf(_, _)
\* the ordered forests of exactly n selections, each drawn from the templates P
ForestsOf(P, n) ==
    IF n = 0 THEN {<<>>}
    ELSE UNION { { <<WithSelections(p, sub)>> \o rest :
                     p \in P, sub \in ForestsOf(P, k - 1), rest \in ForestsOf(P, n - k) }
                 : k \in 1..n }

ForestsUpTo(P, n) == UNION {ForestsOf(P, k) : k \in 1..n}

RECURSIVE LabelForest(_, _, _, _)
\* gives every selection the id prefix.i, except the first anon unit/model
\* selections in document order, which get none: [sels, anon]
LabelNode(sel, id, anon) ==
    LET bare == is_unit_or_model(sel) /\ anon > 0
        left == IF bare THEN anon - 1 ELSE anon
        sub == IF "selections" \in DOMAIN sel
               THEN LabelForest(sel.selections, id, left, 1)
               ELSE [sels |-> <<>>, anon |-> left]
        own == IF bare THEN [k \in DOMAIN sel \ {"selections"} |-> sel[k]]
               ELSE [k \in DOMAIN sel \ {"selections"} |-> sel[k]] @@ ("id" :> id)
    IN [sel |-> WithSelections(own, sub.sels), anon |-> sub.anon]

LabelForest(sels, prefix, anon, i) ==
    IF i > Len(sels) THEN [sels |-> <<>>, anon |-> anon]
    ELSE LET first == LabelNode(sels[i], prefix \o "." \o ToString(i), anon)
             rest == LabelForest(sels, prefix, first.anon, i + 1)
         IN [sels |-> <<first.sel>> \o rest.sels, anon |-> rest.anon]

\* a roster of one force
Roster(sels, anon) ==
    [roster |->
        [forces |-> << [rules |-> <<[id |-> "fr1", name |-> "Force Rule"]>>,
                        selections |-> LabelForest(sels, "s", anon, 1).sels] >>]]

----------------------------------------------------------------------------
(* Reading the input tree: paths are <<force, i1, i2, ...>> *)

RECURSIVE NodeIn(_, _, _)
NodeIn(sels, path, k) ==
    IF k = Len(path) THEN sels[path[k]]
    ELSE NodeIn(sels[path[k]].selections, path, k + 1)

NodeAt(path) == NodeIn(input.roster.forces[path[1]].selections, path, 2)

RECURSIVE PathsIn(_, _)
PathsIn(sels, prefix) ==
    UNION { {Append(prefix, i)}
            \cup (IF "selections" \in DOMAIN sels[i]
                  THEN PathsIn(sels[i].selections, Append(prefix, i)) ELSE {})
            : i \in 1..Len(sels) }

AllPaths ==
    UNION {PathsIn(input.roster.forces[f].selections, <<f>>) : f \in 1..Len(input.roster.forces)}

\* the proper ancestors of a path, and the path with its ancestors
Ancestors(path) == {SubSeq(path, 1, k) : k \in 2..(Len(path) - 1)}

\* inside a configuration subtree: the selection or an ancestor is a configuration
InConfiguration(path) ==
    \E q \in Ancestors(path) \cup {path} : Get(NodeAt(q), "type", "") = "configuration"

\* the unit/model selections the walk is to build
UnitPaths ==
    {p \in AllPaths : Get(NodeAt(p), "type", "") \in {"unit", "model"} /\ ~InConfiguration(p)}

----------------------------------------------------------------------------
(* Spec: optimize_warhammer_roster, run twice on rosters of plain selections *)

MaxNodes == 4
MaxAnonymous == 1

Seeds == {"uuid-a", "uuid-b"}

PlainTemplates ==
    {[type |-> t, name |-> <<"Selection">>] : t \in {"configuration", "unit", "model", "upgrade"}}

Init ==
    /\ pc = "start"
    /\ \E sels \in ForestsUpTo(PlainTemplates, MaxNodes), anon \in 0..MaxAnonymous :
          input = Roster(sels, anon)
    /\ optimized = EmptyOptimized
    /\ rerun = EmptyOptimized
    /\ history = [built |-> <<>>]
    /\ IdleMiner /\ IdleMerge /\ IdleTables /\ IdlePoints

\* the outcome c of a run becomes the state
Ran(c) ==
    /\ optimized' = c.opt
    /\ history' = [built |-> c.built]

\* one run of optimize_warhammer_roster on the input
Optimize ==
    /\ pc = "start"
    /\ \E seed \in Seeds : Ran(optimize_warhammer_roster(input, seed))
    /\ pc' = "done"
    /\ UNCHANGED <<input, rerun, description, mined, target, last, selection, result>>

\* a second run on the same input
Rerun ==
    /\ pc = "done"
    /\ \E seed \in Seeds : rerun' = optimize_warhammer_roster(input, seed).opt
    /\ pc' = "twice"
    /\ UNCHANGED <<input, optimized, description, mined, target, history, last,
                   selection, result>>

Next == Optimize \/ Rerun

Spec == Init /\ [][Next]_vars

\* the heap index of the Unit record built from the selection at a path
RefOf(path) ==
    history.built[CHOOSE j \in 1..Len(history.built) : history.built[j].path = path].ref

\* where a Unit record is listed: <<0, k>> is position k of optimized.units,
\* <<h, k>> position k of the models list of the unit at heap index h
PlacesOf(ref) ==
    {<<0, k>> : k \in {j \in 1..Len(optimized.units) : optimized.units[j] = ref}}
    \cup UNION { {<<h, k>> : k \in {j \in 1..Len(Get(optimized.heap[h], "models", <<>>)) :
                                        optimized.heap[h].models[j] = ref}}
                 : h \in 1..Len(optimized.heap) }

\* the nearest enclosing unit/model selection of a path, <<>> when there is none
IsUnitPath(q) == Get(NodeAt(q), "type", "") \in {"unit", "model"}

ParentPath(path) ==
    LET above == {q \in Ancestors(path) : IsUnitPath(q)} IN
    IF above = {} THEN <<>>
    ELSE CHOOSE q \in above : \A r \in above : Len(r) <= Len(q)

AllHaveIds == \A p \in UnitPaths : "id" \in DOMAIN NodeAt(p)

\* C3 as stated: two runs on the same input build identical output structures,
\* also when some unit/model selection has no id
C3_Deterministic == pc = "twice" => rerun = optimized

\* C3 amended: two runs on the same input build identical output structures
\* when every unit/model selection that is built has an id
C3_DeterministicWithIds == (pc = "twice" /\ AllHaveIds) => rerun = optimized

C3_Witness ==
    /\ pc = "twice"
    /\ AllHaveIds
    /\ Cardinality(UnitPaths) >= 2
    /\ \E p \in UnitPaths : Len(p) >= 3
    /\ rerun = optimized

\* C6: every unit/model selection outside configuration subtrees is built into a
\* Unit record exactly once, and every Unit record is listed at most once across
\* the units list and all models lists together
C6_UnitUniqueness ==
    pc = "done" =>
        /\ \A p \in UnitPaths :
              Cardinality({k \in 1..Len(history.built) : history.built[k].path = p}) = 1
        /\ \A ref \in 1..Len(optimized.heap) : Cardinality(PlacesOf(ref)) <= 1

\* a unit/model below a unit, so that its subtree is walked by the weapon
\* aggregator of the enclosing unit and by the recursive extract_units call
C6_Witness ==
    /\ pc = "done"
    /\ \E p \in UnitPaths :
          /\ ParentPath(p) # <<>>
          /\ "selections" \in DOMAIN NodeAt(p)
          /\ Cardinality(PlacesOf(RefOf(p))) = 1

\* C7: a built Unit record is in parent.models iff there is a nearest enclosing
\* unit/model selection (reached through any pass-through containers) and the
\* selection's type is model; in every other case it is in the units list
C7_PlacementRule ==
    pc = "done" =>
        \A p \in UnitPaths :
            IF ParentPath(p) # <<>> /\ Get(NodeAt(p), "type", "") = "model"
            THEN PlacesOf(RefOf(p)) \subseteq {RefOf(ParentPath(p))} \X (1..Len(optimized.heap))
                 /\ PlacesOf(RefOf(p)) # {}
            ELSE PlacesOf(RefOf(p)) \subseteq {0} \X (1..Len(optimized.heap))
                 /\ PlacesOf(RefOf(p)) # {}

\* a model placed under its parent through a container, beside a unit that sits
\* below the same parent and went to the units list
C7_Witness ==
    /\ pc = "done"
    /\ \E p, q \in UnitPaths :
          /\ ParentPath(p) # <<>> /\ ParentPath(q) = ParentPath(p)
          /\ Len(p) > Len(ParentPath(p)) + 1
          /\ NodeAt(p).type = "model" /\ NodeAt(q).type = "unit"
          /\ \E k \in 1..Len(optimized.heap) : <<RefOf(ParentPath(p)), k>> \in PlacesOf(RefOf(p))
          /\ \E k \in 1..Len(optimized.heap) : <<0, k>> \in PlacesOf(RefOf(q))

----------------------------------------------------------------------------
(* SpecLeaders: one host unit over selections that may carry a Leader ability *)

MaxFollowers == 2

\* an Abilities profile named exactly "Leader", its description listing one
\* bodyguard unit on a bullet line
LeaderAbility ==
    [id |-> "ab-leader", name |-> <<"Leader">>, typeName |-> "Abilities",
     characteristics |->
        <<[name |-> "Description",
           text |-> <<"This", "model", "can", "be", "attached", "to", NL,
                      "U+25A0", "Intercessors">>]>>]

HostTemplates ==
    {[type |-> "unit", name |-> <<"Host">>],
     [type |-> "unit", name |-> <<"Host">>, profiles |-> <<LeaderAbility>>]}

FollowerTemplates ==
    {[type |-> "unit", name |-> <<"Captain">>, profiles |-> <<LeaderAbility>>],
     [type |-> "model", name |-> <<"Sergeant">>, profiles |-> <<LeaderAbility>>],
     [type |-> "unit", name |-> <<"Squad">>],
     [type |-> "upgrade", name |-> <<"Wargear">>],
     [type |-> "configuration", name |-> <<"Detachment">>]}

InitLeaders ==
    /\ pc = "start"
    /\ \E host \in HostTemplates,
          followers \in {<<>>} \cup ForestsUpTo(FollowerTemplates, MaxFollowers) :
          input = Roster(<<WithSelections(host, followers)>>, 0)
    /\ optimized = EmptyOptimized
    /\ rerun = EmptyOptimized
    /\ history = [built |-> <<>>]
    /\ IdleMiner /\ IdleMerge /\ IdleTables /\ IdlePoints

NextLeaders == Optimize

SpecLeaders == InitLeaders /\ [][NextLeaders]_vars

\* the selection carries an Abilities profile named exactly "Leader"
HasLeaderAbility(sel) ==
    \E i \in 1..Len(Get(sel, "profiles", <<>>)) :
        /\ Get(sel.profiles[i], "typeName", None) = "Abilities"
        /\ Get(sel.profiles[i], "name", <<>>) = <<"Leader">>

Occurrences(lst, x) == Cardinality({k \in 1..Len(lst) : lst[k] = x})

\* the Unit record built from the selection at a path
BuiltAt(path) == optimized.heap[RefOf(path)]

\* the host is the only top-level selection of the only force
HostPath == <<1, 1>>

\* C1: after the walk, for a host unit without a Leader ability of its own and
\* a child selection of type unit, one level below it, that carries an Abilities
\* profile named exactly Leader: attachments[host.id] contains the leader's id
\* exactly once and the leader's Unit record has defaultHostId = host.id
C1_LeaderAttached ==
    pc = "done" =>
        \A i \in 1..Len(Get(NodeAt(HostPath), "selections", <<>>)) :
            LET host == NodeAt(HostPath)
                leader == host.selections[i]
            IN (/\ ~HasLeaderAbility(host)
                /\ Get(leader, "type", "") = "unit"
                /\ HasLeaderAbility(leader))
               => /\ Occurrences(DictGet(optimized.attachments, host.id, <<>>), leader.id) = 1
                  /\ Get(BuiltAt(Append(HostPath, i)), "defaultHostId", None) = host.id

----------------------------------------------------------------------------
(* SpecWeapons: one unit over selections that carry weapon profiles *)

MaxParts == 3

BoltRifle ==
    [id |-> "w-bolt", name |-> <<"Bolt", "Rifle">>, typeName |-> "Ranged Weapons",
     characteristics |-> <<[name |-> "Range", text |-> <<"24">>]>>]

PlasmaStandard ==
    [id |-> "w-std", name |-> <<FiringModeMarker, "Plasma", "Gun", Separator, "Standard">>,
     typeName |-> "Ranged Weapons"]

PlasmaOvercharge ==
    [id |-> "w-oc", name |-> <<FiringModeMarker, "Plasma", "Gun", Separator, "Overcharge">>,
     typeName |-> "Ranged Weapons",
     characteristics |-> <<[name |-> "Keywords", text |-> <<"Hazardous">>]>>]

\* the overcharge profile of another entry of the same weapon
PlasmaOverchargeOther == [PlasmaOvercharge EXCEPT !.id = "w-oc2"]

PartTemplates ==
    {[type |-> "model", name |-> <<"Marine">>, profiles |-> <<BoltRifle>>],
     [type |-> "model", name |-> <<"Marine">>, number |-> 2, profiles |-> <<BoltRifle>>],
     [type |-> "upgrade", name |-> <<"Bolt", "Rifle">>, profiles |-> <<BoltRifle>>],
     [type |-> "upgrade", name |-> <<"Plasma", "Gun">>, number |-> 2,
      profiles |-> <<PlasmaStandard, PlasmaOvercharge>>],
     [type |-> "upgrade", name |-> <<"Plasma", "Gun">>, profiles |-> <<PlasmaOverchargeOther>>],
     [type |-> "configuration", name |-> <<"Loadout">>, profiles |-> <<BoltRifle>>],
     [type |-> "unit", name |-> <<"Combat", "Squad">>]}

SquadTemplates ==
    {[type |-> "unit", name |-> <<"Squad">>],
     [type |-> "unit", name |-> <<"Squad">>, number |-> 2]}

InitWeapons ==
    /\ pc = "start"
    /\ \E squad \in SquadTemplates, parts \in ForestsUpTo(PartTemplates, MaxParts) :
          input = Roster(<<WithSelections(squad, parts)>>, 0)
    /\ optimized = EmptyOptimized
    /\ rerun = EmptyOptimized
    /\ history = [built |-> <<>>]
    /\ IdleMiner /\ IdleMerge /\ IdleTables /\ IdlePoints

NextWeapons == Optimize

SpecWeapons == InitWeapons /\ [][NextWeapons]_vars

\* the selections below a unit that its weapon walk visits: no configuration
\* selection on the way down, the selection itself included
Walked(p) ==
    {q \in AllPaths :
        /\ Len(p) < Len(q) /\ SubSeq(q, 1, Len(p)) = p
        /\ \A k \in (Len(p) + 1)..Len(q) :
              Get(NodeAt(SubSeq(q, 1, k)), "type", "") # "configuration"}

IsWeaponProfile(profile) ==
    Get(profile, "typeName", None) \in {"Ranged Weapons", "Melee Weapons"}

\* the weapon profiles below a unit: <<path of the owning selection, index>>
WeaponProfiles(p) ==
    UNION { {<<q, i>> : i \in {j \in 1..Len(Get(NodeAt(q), "profiles", <<>>)) :
                                   IsWeaponProfile(NodeAt(q).profiles[j])}}
            : q \in Walked(p) }

ProfileAt(x) == NodeAt(x[1]).profiles[x[2]]

RECURSIVE SumOfNumbers(_)
\* the sum of the owning selections' number (default 1) over profile occurrences
SumOfNumbers(occurrences) ==
    IF occurrences = {} THEN 0
    ELSE LET x == CHOOSE y \in occurrences : TRUE IN
         Get(NodeAt(x[1]), "number", 1) + SumOfNumbers(occurrences \ {x})

WeaponsAt(p) == Get(BuiltAt(p), "weapons", <<>>)

WeaponIndexes(p, id) == {j \in 1..Len(WeaponsAt(p)) : WeaponsAt(p)[j].id = id}

Occurring(p, id) == {x \in WeaponProfiles(p) : ProfileAt(x).id = id}

\* every occurrence is owned by a unit/model selection without a number
OnPlainModels(occurrences) ==
    \A x \in occurrences : IsUnitPath(x[1]) /\ "number" \notin DOMAIN NodeAt(x[1])

\* C4: for every unit and every weapon id found below it outside configuration
\* subtrees, the unit's weapons list holds exactly one record for the id, whose
\* count is the sum over the id's profile occurrences of the owning selection's
\* number (default 1); when the k occurrences are each on a model entry without
\* a number, count = k and models_with_weapon = k
C4_WeaponTotals ==
    pc = "done" =>
        \A p \in UnitPaths :
            \A id \in {ProfileAt(x).id : x \in WeaponProfiles(p)} :
                /\ Cardinality(WeaponIndexes(p, id)) = 1
                /\ \A j \in WeaponIndexes(p, id) :
                      /\ WeaponsAt(p)[j].count = SumOfNumbers(Occurring(p, id))
                      /\ OnPlainModels(Occurring(p, id))
                         => /\ WeaponsAt(p)[j].count = Cardinality(Occurring(p, id))
                            /\ WeaponsAt(p)[j].models_with_weapon
                                  = Cardinality(Occurring(p, id))

\* three model entries, each with one Bolt Rifle and no number: count 3, on 3 models
C4_Witness ==
    /\ pc = "done"
    /\ \E p \in UnitPaths :
          /\ Cardinality(Occurring(p, "w-bolt")) = 3
          /\ OnPlainModels(Occurring(p, "w-bolt"))
          /\ \E j \in WeaponIndexes(p, "w-bolt") :
                WeaponsAt(p)[j].count = 3 /\ WeaponsAt(p)[j].models_with_weapon = 3

\* the weapon profiles below a unit whose name starts with the marker glyph
MarkedProfiles(p) == {x \in WeaponProfiles(p) : IsFiringMode(ProfileAt(x).name)}

LinkedAt(p) == Get(BuiltAt(p), "linked_weapons", <<>>)

\* C9: for every unit, each linked_weapons entry has the keys standard and
\* overcharge, and for every marked weapon profile below the unit,
\* linked_weapons[base_name][mode] is the id of a marked profile below the unit
\* with that base name (the name up to the first separator) and that mode
C9_FiringModeLinking ==
    pc = "done" =>
        \A p \in UnitPaths :
            /\ \A k \in 1..Len(LinkedAt(p)) :
                  DOMAIN LinkedAt(p)[k].v = {"standard", "overcharge"}
            /\ \A x \in MarkedProfiles(p) :
                  /\ DictHas(LinkedAt(p), BaseName(ProfileAt(x).name))
                  /\ \E y \in MarkedProfiles(p) :
                        /\ BaseName(ProfileAt(y).name) = BaseName(ProfileAt(x).name)
                        /\ OverchargeMode(ProfileAt(y).name) = OverchargeMode(ProfileAt(x).name)
                        /\ DictGet(LinkedAt(p), BaseName(ProfileAt(x).name), None)
                               [OverchargeMode(ProfileAt(x).name)] = ProfileAt(y).id

\* the two Plasma Gun profiles under one unit, linked under the base name
C9_Witness ==
    /\ pc = "done"
    /\ \E p \in UnitPaths :
          /\ {ProfileAt(x).id : x \in MarkedProfiles(p)} = {"w-std", "w-oc"}
          /\ LinkedAt(p) = << [k |-> <<FiringModeMarker, "Plasma", "Gun">>,
                               v |-> [standard |-> "w-std", overcharge |-> "w-oc"]] >>

\* the unit/model selections from below the unit p down to q, q included
ModelsBetween(p, q) == {r \in Ancestors(q) \cup {q} : Len(r) > Len(p) /\ IsUnitPath(r)}

\* the multiplier in effect at selection q of the walk below unit p, when the walk
\* over p's direct children starts with the multiplier start
MultiplierAt(p, q, start) ==
    IF ModelsBetween(p, q) = {} THEN start
    ELSE LET r == CHOOSE m \in ModelsBetween(p, q) :
                      \A n \in ModelsBetween(p, q) : Len(n) <= Len(m)
         IN Get(NodeAt(r), "number", 1)

RECURSIVE SumOfMultipliers(_, _, _)
SumOfMultipliers(p, occurrences, start) ==
    IF occurrences = {} THEN 0
    ELSE LET x == CHOOSE y \in occurrences : TRUE IN
         MultiplierAt(p, x[1], start) + SumOfMultipliers(p, occurrences \ {x}, start)

\* C11 as stated: the multiplier starts at 1 below the unit and becomes a
\* unit/model child's number when the walk enters it, so that a weapon profile
\* with no unit/model selection between it and the unit adds 1 to
\* models_with_weapon whatever the unit's count
C11_MultiplierStartsAtOne ==
    pc = "done" =>
        \A p \in UnitPaths :
            \A id \in {ProfileAt(x).id : x \in WeaponProfiles(p)} :
                \A j \in WeaponIndexes(p, id) :
                    WeaponsAt(p)[j].models_with_weapon
                        = SumOfMultipliers(p, Occurring(p, id), 1)

\* C11 amended: the multiplier starts at the count of the unit being built and
\* becomes a unit/model child's number when the walk enters it, so that a weapon
\* profile with no unit/model selection between it and the unit adds the unit's
\* count to models_with_weapon
C11_MultiplierStartsAtCount ==
    pc = "done" =>
        \A p \in UnitPaths :
            \A id \in {ProfileAt(x).id : x \in WeaponProfiles(p)} :
                \A j \in WeaponIndexes(p, id) :
                    WeaponsAt(p)[j].models_with_weapon
                        = SumOfMultipliers(p, Occurring(p, id), Get(NodeAt(p), "number", 1))

\* a unit of count 2 whose weapon is owned by selections with no unit/model
\* between them and the unit: each occurrence adds 2
C11_Witness ==
    /\ pc = "done"
    /\ \E p \in UnitPaths :
          /\ Get(NodeAt(p), "number", 1) = 2
          /\ Occurring(p, "w-bolt") # {}
          /\ \A x \in Occurring(p, "w-bolt") : ModelsBetween(p, x[1]) = {}
          /\ \E x \in Occurring(p, "w-bolt") : Len(x[1]) > Len(p) + 1
          /\ \E j \in WeaponIndexes(p, "w-bolt") :
                WeaponsAt(p)[j].models_with_weapon = 2 * Cardinality(Occurring(p, "w-bolt"))

----------------------------------------------------------------------------
(* SpecContent: selections of every type that carry a rule, abilities with  *)
(* minable text and a weapon, each id marked with the id of its selection   *)

MaxItems == 3

\* an ability whose description holds a reroll phrase and a modifier phrase
TacticsAbility ==
    [id |-> "ab-tactics", name |-> <<"Tactics">>, typeName |-> "Abilities",
     characteristics |->
        <<[name |-> "Description",
           text |-> <<"Re-roll", "Hit", "rolls", "of", "1", NL,
                      "Add", "1", "to", "the", "Wound", "roll">>]>>]

Content ==
    [rules |-> <<[id |-> "r-oath", name |-> "Oath"]>>,
     profiles |-> <<LeaderAbility, TacticsAbility, BoltRifle>>]

SelectionTypes == {"configuration", "unit", "model", "upgrade"}

\* plain containers and units, and selections of every type with content
ContentTemplates ==
    {[type |-> t, name |-> <<"Selection">>] : t \in {"unit", "upgrade"}}
    \cup {[type |-> t, name |-> <<"Selection">>] @@ Content : t \in SelectionTypes}

\* the id of a rule or profile of the selection with id owner
OwnedId(owner, id) == owner \o "/" \o id

RECURSIVE OwnForest(_)
\* marks the ids of the rules and profiles of every selection with the selection's id
OwnSelection(sel) ==
    [k \in DOMAIN sel |->
        CASE k = "rules" ->
                 [i \in 1..Len(sel.rules) |->
                     [sel.rules[i] EXCEPT !.id = OwnedId(sel.id, @)]]
          [] k = "profiles" ->
                 [i \in 1..Len(sel.profiles) |->
                     [sel.profiles[i] EXCEPT !.id = OwnedId(sel.id, @)]]
          [] k = "selections" -> OwnForest(sel.selections)
          [] OTHER -> sel[k]]

OwnForest(sels) == [i \in 1..Len(sels) |-> OwnSelection(sels[i])]

OwnedRoster(sels) ==
    [roster |->
        [forces |-> << [rules |-> <<[id |-> "fr1", name |-> "Force Rule"]>>,
                        selections |-> OwnForest(LabelForest(sels, "s", 0, 1).sels)] >>]]

InitContent ==
    /\ pc = "start"
    /\ \E sels \in ForestsUpTo(ContentTemplates, MaxItems) : input = OwnedRoster(sels)
    /\ optimized = EmptyOptimized
    /\ rerun = EmptyOptimized
    /\ history = [built |-> <<>>]
    /\ IdleMiner /\ IdleMerge /\ IdleTables /\ IdlePoints

NextContent == Optimize

SpecContent == InitContent /\ [][NextContent]_vars

\* the selections that are neither a configuration nor below one
FreePaths == {q \in AllPaths : ~InConfiguration(q)}

Elements(lst) == {lst[i] : i \in 1..Len(lst)}

RuleIdsOf(paths) ==
    UNION { {NodeAt(q).rules[i].id : i \in 1..Len(Get(NodeAt(q), "rules", <<>>))}
            : q \in paths }

IsAbilityProfile(profile) == Get(profile, "typeName", None) = "Abilities"

AbilityProfilesAt(q) ==
    {i \in 1..Len(Get(NodeAt(q), "profiles", <<>>)) : IsAbilityProfile(NodeAt(q).profiles[i])}

AbilityIdsOf(paths) ==
    UNION { {NodeAt(q).profiles[i].id : i \in AbilityProfilesAt(q)} : q \in paths }

WeaponIdsOf(paths) ==
    UNION { {NodeAt(q).profiles[i].id :
                i \in {j \in 1..Len(Get(NodeAt(q), "profiles", <<>>)) :
                          IsWeaponProfile(NodeAt(q).profiles[j])}}
            : q \in paths }

ForceRuleIds ==
    UNION { {input.roster.forces[f].rules[i].id :
                i \in 1..Len(Get(input.roster.forces[f], "rules", <<>>))}
            : f \in 1..Len(input.roster.forces) }

MinedFields ==
    {"isLeader", "leaderOptions", "unitRerolls", "leaderAuraRerolls", "unitModifiers",
     "leaderAuraModifiers"}

\* C12: nothing in the output comes from a configuration selection or from
\* below one: every Unit record is built from a selection outside configuration
\* subtrees, every key of the rules table (force rules apart) and of the
\* abilities table, every rule, ability and weapon on a unit is the id of a rule
\* or profile of such a selection, and a unit carries mined effects only if a
\* selection the walks reach (the unit's own or one below it with no
\* configuration on the way) has an Abilities profile
C12_ConfigurationSkipped ==
    pc = "done" =>
        /\ \A ref \in 1..Len(optimized.heap) :
              \E k \in 1..Len(history.built) :
                  history.built[k].ref = ref /\ history.built[k].path \in FreePaths
        /\ DictKeys(optimized.rules) \subseteq RuleIdsOf(FreePaths) \cup ForceRuleIds
        /\ DictKeys(optimized.abilities) \subseteq AbilityIdsOf(FreePaths)
        /\ \A ref \in 1..Len(optimized.heap) :
              /\ Elements(Get(optimized.heap[ref], "rules", <<>>)) \subseteq RuleIdsOf(FreePaths)
              /\ Elements(Get(optimized.heap[ref], "abilities", <<>>))
                    \subseteq AbilityIdsOf(FreePaths)
              /\ {w.id : w \in Elements(Get(optimized.heap[ref], "weapons", <<>>))}
                    \subseteq WeaponIdsOf(FreePaths)
        /\ \A p \in UnitPaths :
              DOMAIN BuiltAt(p) \cap MinedFields # {}
                  => \E q \in {p} \cup Walked(p) : AbilityProfilesAt(q) # {}

\* a configuration selection with a rule, abilities and a weapon two levels below
\* a unit that was built and took nothing from it
C12_Witness ==
    /\ pc = "done"
    /\ \E p \in UnitPaths, q \in AllPaths :
          /\ Len(q) = Len(p) + 2 /\ SubSeq(q, 1, Len(p)) = p
          /\ NodeAt(q).type = "configuration"
          /\ NodeAt(SubSeq(q, 1, Len(p) + 1)).type # "configuration"
          /\ "profiles" \in DOMAIN NodeAt(q) /\ "rules" \in DOMAIN NodeAt(q)
          /\ DOMAIN BuiltAt(p) \cap (MinedFields \cup {"rules", "abilities", "weapons"}) = {}
          /\ optimized.abilities = <<>>

\* the keys of the effects the miners find in a profile's description
RerollKeysOf(profile) ==
    DictKeys(extract_reroll_effects(extract_profile_description(profile)).effects)

ModifierKeysOf(profile) ==
    DictKeys(extract_modifier_effects(extract_profile_description(profile)).effects)

\* the ability's id and what was mined from it are on the Unit record u
AbilityPresentOn(profile, u) ==
    /\ InList(Get(u, "abilities", <<>>), profile.id)
    /\ profile.name = <<"Leader">>
       => /\ Get(u, "isLeader", FALSE)
          /\ Elements(extract_leader_options(extract_profile_description(profile)))
                \subseteq Elements(Get(u, "leaderOptions", <<>>))
    /\ RerollKeysOf(profile)
          \subseteq DictKeys(Get(u, "unitRerolls", <<>>))
                    \cup DictKeys(Get(u, "leaderAuraRerolls", <<>>))
    /\ ModifierKeysOf(profile)
          \subseteq DictKeys(Get(u, "unitModifiers", <<>>))
                    \cup DictKeys(Get(u, "leaderAuraModifiers", <<>>))

\* neither the ability's id nor any mined field is on the Unit record u
AbilityAbsentFrom(profile, u) ==
    /\ ~InList(Get(u, "abilities", <<>>), profile.id)
    /\ DOMAIN u \cap MinedFields = {}

\* the model selections nested in a unit that carry an Abilities profile
AbilityModels ==
    {q \in UnitPaths :
        NodeAt(q).type = "model" /\ ParentPath(q) # <<>> /\ AbilityProfilesAt(q) # {}}

\* the units whose subtree walk reaches the selection q
EnclosingUnits(q) == {p \in UnitPaths : q \in Walked(p)}

\* C13 as stated: an Abilities profile on a model selection nested in a unit
\* leaves its id and its mined effects on the enclosing unit's record and not on
\* the sub-model's own record
C13_ParentNotSubModel ==
    pc = "done" =>
        \A q \in AbilityModels : \A i \in AbilityProfilesAt(q) :
            /\ \A p \in EnclosingUnits(q) : AbilityPresentOn(NodeAt(q).profiles[i], BuiltAt(p))
            /\ AbilityAbsentFrom(NodeAt(q).profiles[i], BuiltAt(q))

\* C13 amended: an Abilities profile on a model selection nested in a unit
\* leaves its id and its mined effects on the record of every enclosing unit
\* whose subtree walk reaches it, and on the sub-model's own record as well
C13_ParentAndSubModel ==
    pc = "done" =>
        \A q \in AbilityModels : \A i \in AbilityProfilesAt(q) :
            /\ \A p \in EnclosingUnits(q) : AbilityPresentOn(NodeAt(q).profiles[i], BuiltAt(p))
            /\ AbilityPresentOn(NodeAt(q).profiles[i], BuiltAt(q))

\* a unit without profiles of its own over a model with the abilities: both records
\* hold the two ability ids and the mined fields
C13_Witness ==
    /\ pc = "done"
    /\ \E q \in AbilityModels :
          LET p == ParentPath(q) IN
          /\ NodeAt(p).type = "unit" /\ AbilityProfilesAt(p) = {}
          /\ Walked(p) = {q}
          /\ \A u \in {BuiltAt(p), BuiltAt(q)} :
                /\ Get(u, "abilities", <<>>)
                      = <<OwnedId(NodeAt(q).id, "ab-leader"), OwnedId(NodeAt(q).id, "ab-tactics")>>
                /\ Get(u, "isLeader", FALSE)
                /\ Get(u, "leaderOptions", <<>>) = <<<<"Intercessors">>>>
                /\ Get(u, "unitRerolls", <<>>) = <<[k |-> "hits", v |-> "ones"]>>
                /\ Get(u, "unitModifiers", <<>>) = <<[k |-> "wounds", v |-> 1]>>

----------------------------------------------------------------------------
(* SpecStats: extract_unit_stats on a selection with a statline of its own
   and statlines on its children and grandchildren *)

MaxChildren == 2

MoveValues == {"", "5", "6"}
ToughnessValues == {"", "4"}

\* a Unit-typed profile; an empty toughness is a characteristic without "$text"
StatLine(m, t) ==
    [name |-> "Statline", typeName |-> "Unit",
     characteristics |-> <<[name |-> "M", text |-> m],
                           IF t = "" THEN [name |-> "T"] ELSE [name |-> "T", text |-> t],
                           [name |-> "BS", text |-> "3+"]>>]

StatLines == {StatLine(m, t) : m \in MoveValues, t \in ToughnessValues}

ChildKinds == {"model", "unit", "upgrade", "configuration", "nested"}

\* a child selection of the given kind carrying the statline; a "nested" child
\* is a model that keeps the statline on a model of its own
ChildOf(kind, line) ==
    IF kind = "nested"
    THEN [name |-> "Squad part", type |-> "model",
          selections |-> <<[name |-> "Inner", type |-> "model", profiles |-> <<line>>]>>]
    ELSE [name |-> "Part", type |-> kind, profiles |-> <<line>>]

Children == {ChildOf(k, l) : k \in ChildKinds, l \in StatLines}

ChildLists == UNION {[1..n -> Children] : n \in 0..MaxChildren}

\* the profiles of the selection itself; in the last one a second statline
\* empties the move the first one gave
OwnProfiles ==
    {<<StatLine("", "")>>, <<StatLine("5", "")>>, <<StatLine("", "4")>>,
     <<StatLine("5", ""), StatLine("", "")>>}

StatSelections ==
    {[name |-> "Squad", type |-> "unit"]}
    \cup {[name |-> "Squad", type |-> "unit", selections |-> subs] : subs \in ChildLists}
    \cup {[name |-> "Squad", type |-> "unit", profiles |-> own, selections |-> subs] :
              own \in OwnProfiles, subs \in ChildLists}

InitStats ==
    /\ pc = "start"
    /\ optimized = EmptyOptimized
    /\ history = [calls |-> 0]
    /\ selection \in StatSelections
    /\ result = Returned(0)
    /\ IdleWalk /\ IdleMiner /\ IdleMerge /\ IdleTables

\* one call of extract_unit_stats on the selection
CallExtractUnitStats ==
    /\ pc = "start"
    /\ result' = Returned(extract_unit_stats(selection))
    /\ pc' = "stats"
    /\ UNCHANGED <<input, optimized, rerun, description, mined, target, history, last,
                   selection>>

NextStats == CallExtractUnitStats

SpecStats == InitStats /\ [][NextStats]_vars

StatKeys == {"move", "toughness", "save", "wounds", "leadership", "objectiveControl"}

CodeOf(f) ==
    CASE f = "move" -> "M"
      [] f = "toughness" -> "T"
      [] f = "save" -> "SV"
      [] f = "wounds" -> "W"
      [] f = "leadership" -> "LD"
      [] f = "objectiveControl" -> "OC"

\* the places <<profile, characteristic>> of a selection where a Unit-typed
\* profile gives the characteristic with the code
StatPlaces(sel, code) ==
    LET profiles == Get(sel, "profiles", <<>>)
        UnitTyped == {i \in DOMAIN profiles :
                         /\ Get(profiles[i], "typeName", None) = "Unit"
                         /\ "characteristics" \in DOMAIN profiles[i]}
    IN UNION {{<<i, j>> : j \in {k \in DOMAIN profiles[i].characteristics :
                                     profiles[i].characteristics[k].name = code}} :
              i \in UnitTyped}

StatValueAt(sel, pl) == Get(sel.profiles[pl[1]].characteristics[pl[2]], "text", "")

Before(p, q) ==
    \/ p[1] < q[1]
    \/ p[1] = q[1] /\ p[2] < q[2]
    \/ p[1] = q[1] /\ p[2] = q[2] /\ p[3] < q[3]

\* the value the selection's own profiles leave in the field: the last one given
OwnStat(sel, f) ==
    LET places == StatPlaces(sel, CodeOf(f))
    IN IF places = {} THEN ""
       ELSE StatValueAt(sel, CHOOSE pl \in places :
                                 \A other \in places \ {pl} :
                                     Before(<<0>> \o other, <<0>> \o pl))

\* the places <<child, profile, characteristic>> of the immediate children of
\* type unit or model that give a non-empty value for the code
ChildStatPlaces(sel, code) ==
    LET subs == Get(sel, "selections", <<>>)
        Scanned == {c \in DOMAIN subs :
                       /\ Get(subs[c], "type", "") \in {"unit", "model"}
                       /\ Get(subs[c], "type", "") # "configuration"}
    IN UNION {{<<c>> \o pl : pl \in {q \in StatPlaces(subs[c], code) :
                                         StatValueAt(subs[c], q) # ""}} :
              c \in Scanned}

\* the first non-empty value in child order, "" when there is none
ChildStat(sel, f) ==
    LET places == ChildStatPlaces(sel, CodeOf(f))
    IN IF places = {} THEN ""
       ELSE LET first == CHOOSE pl \in places :
                             \A other \in places \ {pl} : Before(pl, other)
            IN StatValueAt(sel.selections[first[1]], <<first[2], first[3]>>)

OwnStatsEmpty(sel) == \A f \in StatKeys : OwnStat(sel, f) = ""

ExpectedStat(sel, f) ==
    IF OwnStatsEmpty(sel) THEN ChildStat(sel, f) ELSE OwnStat(sel, f)

\* C14: extract_unit_stats looks at the immediate non-configuration unit/model
\* children only when all six fields are empty after the node's own Unit
\* profiles; each field then takes the first non-empty value in child order;
\* the result is the empty map exactly when no field was found anywhere, and
\* a map with all six keys otherwise
C14_StatsFallback ==
    pc = "stats" =>
        /\ result.raised = None
        /\ IF \A f \in StatKeys : ExpectedStat(selection, f) = ""
           THEN result.value = NoStats
           ELSE /\ DOMAIN result.value = StatKeys
                /\ \A f \in StatKeys : result.value[f] = ExpectedStat(selection, f)

\* the node's own statline is empty and the fallback ran over two unit/model
\* children that give different moves: the first child's is kept
C14_Witness ==
    /\ pc = "stats"
    /\ OwnStatsEmpty(selection)
    /\ "profiles" \in DOMAIN selection
    /\ Len(Get(selection, "selections", <<>>)) = 2
    /\ \A i \in 1..2 : selection.selections[i].type \in {"unit", "model"}
    /\ "profiles" \in DOMAIN selection.selections[1]
    /\ "profiles" \in DOMAIN selection.selections[2]
    /\ StatValueAt(selection.selections[1], <<1, 1>>) = "6"
    /\ StatValueAt(selection.selections[2], <<1, 1>>) = "5"
    /\ result.value # NoStats
    /\ result.value.move = "6"
    /\ result.value.save = ""

====
